---- MODULE Spec2Model ----
(***************************************************************************)
(* EZVenv (ezvenv/core.py, ezvenv/cli.py): the bootstrap-and-activation    *)
(* control flow of init_env / EZVenv.setup_env, and the config store       *)
(* (EZVenv.load_config / save_config), as a state machine.                 *)
(*                                                                         *)
(* One chain of processes is modelled: the process started by the caller   *)
(* and, after a successful os.execv of the environment's interpreter with  *)
(* the same argv, the process that re-enters init_env.  The filesystem,    *)
(* the process environment (os.environ) and the working directory survive  *)
(* an execv; everything else is local to one process.                      *)
(***************************************************************************)
EXTENDS Integers, Sequences, FiniteSets

\* ------------------------------------------------------------------ bounds

\* Cap on the number of successful interpreter replacements in one chain.
MaxGen == 2

\* ------------------------------------------------------------- value sets

None == "<none>"
Absent == "<absent>"

\* The six persisted settings keys (core.py:95-102).
Keys == {"envName", "envDir", "pythonVer", "autoInstall", "autoUpdate", "pkgManager"}

\* The value standing for "key missing": envDir holds a path, the rest strings.
AbsentOf(k) == IF k = "envDir" THEN <<>> ELSE Absent

\* A settings fragment: every key maps to a value or to AbsentOf(key).
EmptyFragment == [k \in Keys |-> AbsentOf(k)]

\* What a file on disk holds: its syntax and the mapping it denotes.
NoFile == [syntax |-> "none", data |-> EmptyFragment]

\* Answers a user may type at a (Y/n) prompt.
Answers == {"y", "Yes", "", "n", "NO", " "}

\* Choices a user may type at the master-environment prompt (already stripped).
Choices == {"1", "2", "3", "x"}

\* Outcomes of subprocess.run(..., check=True): exit status 0, a non-zero exit
\* status (CalledProcessError), or the executable cannot be launched (OSError).
RunOutcomes == {"ok", "nonzero", "oserror"}

\* The terminal positions of a process.
Terminal == {"returned", "exited", "uncaught", "shell"}

\* ---------------------------------------------------------------- state

VARIABLES
    args,        \* init_env's arguments (the same argv in every process of the chain)
    env,         \* os.environ: [marker, pythonpath]
    fs,          \* filesystem as seen by the current process: [dir, envRoot, req, cfg]
    cwd,         \* os.getcwd(), a path (sequence of components)
    exe,         \* sys.executable: "master", "env" (the environment's own python) or
                 \* "other"; fixed for the life of a process, and drawn where the
                 \* process first reads it ("unread" until then)
    gen,         \* number of successful interpreter replacements so far
    pc,          \* position of the current process
    configFile,  \* init_env's local config_file after ConfigCheck: [given, ext]
    self,        \* the EZVenv instance, or NoInstance
    answer,      \* init_env's local answer: the last answer typed, None outside
                 \* DirectoryPrep and ConfigCheck
    effects,     \* side effects performed by the current process, in order
    out,         \* messages printed by the current process
    entry,       \* snapshot at process entry: [env, cwd, fs]
    hist,        \* per-process history: what create_env saw at the environment
                 \* root, whether save_config replaced a file, the results of
                 \* load_config, the choice typed, the outcome of the venv run,
                 \* whether the last subprocess.run could not launch
    pkgIdx,      \* update_core_components' loop position in core_packages
    exitCode,    \* process exit status, -1 while running or replaced by a shell
    retval       \* init_env's return value (a path), <<>> while there is none

vars == <<args, env, fs, cwd, exe, gen, pc, configFile, self, answer, effects, out,
          entry, hist, pkgIdx, exitCode, retval>>

NoInstance == [configFile |-> [given |-> FALSE, ext |-> ""], config |-> EmptyFragment,
               envName |-> None, envDir |-> <<>>, pythonVer |-> None,
               pkgManager |-> None, autoInstall |-> None, autoUpdate |-> None,
               autoActivate |-> FALSE]

NoAnswer == None
NoHist == [rootSeen |-> None, overwritten |-> FALSE, loads |-> <<>>, choice |-> None,
           venv |-> None, oserror |-> FALSE]
NoConfigFile == [given |-> FALSE, ext |-> ""]

\* ------------------------------------------------------ pure helpers

\* str.lower() on the answers of the model.
Lower(a) ==
    CASE a = "Yes" -> "yes"
      [] a = "NO" -> "no"
      [] OTHER -> a

\* A mutant: every answer counts as consent.
IsAffirmativeAlways(a) == TRUE

\* core.py:375 and 384/394: answer.lower() in ["y", "yes", ""].
IsAffirmative(a) == Lower(a) \in {"y", "yes", ""}

\* A mutant: the marker is ignored.
AlreadyActivatedNever(e) == FALSE

\* core.py:363: os.environ.get("EZVENV_ALREADY_ACTIVATED") == "1".
AlreadyActivated(e) == e.marker = "1"

\* config.get(key, default).
Get(config, key, default) == IF config[key] = AbsentOf(key) THEN default ELSE config[key]

\* x or y, for a string or None argument.
Or(x, y) == IF x = None \/ x = "" THEN y ELSE x

\* The directory init_env works in after DirectoryPrep: os.chdir(env_dir) for a
\* given directory (a relative one resolves against the working directory).
TargetDir(a, dir) ==
    CASE a.env_dir = None -> dir
      [] a.env_dir = "abs" -> <<"target">>
      [] OTHER -> Append(dir, "rel")

\* os.path.abspath(env_dir or os.getcwd()), evaluated in working directory dir.
Abspath(a, dir) == TargetDir(a, dir)

\* ------------------------------------------------------ config store

\* core.py:65-89 load_config: the parser is chosen by the name's suffix; a missing
\* file, an unknown suffix and a parse error all give {}.  JSON text is also YAML
\* (a flow mapping); block-style YAML text is not JSON.
LoadConfig(name, file) ==
    IF file.syntax = "none" THEN EmptyFragment
    ELSE IF name.ext = ".json"
         THEN IF file.syntax = "json" THEN file.data ELSE EmptyFragment
    ELSE IF name.ext \in {".yaml", ".yml"}
         THEN IF file.syntax \in {"yaml", "json"} THEN file.data ELSE EmptyFragment
    ELSE EmptyFragment

\* core.py:111-126 detect_pkg_manager; tools is what shutil.which finds.
DetectPkgManager(config, tools) ==
    LET manager == Get(config, "pkgManager", "auto") IN
    IF manager # "auto" THEN manager
    ELSE IF "poetry" \in tools THEN "poetry"
    ELSE IF "pipenv" \in tools THEN "pipenv"
    ELSE "pip"

\* core.py:44-60 EZVenv.__init__ up to save_defaults: the instance built from the
\* arguments, the file at the config path and the working directory.
NewInstance(name, file, a, dir, tools) ==
    LET config == LoadConfig(name, file) IN
    [configFile |-> name,
     config |-> config,
     envName |-> Or(a.env_name, Get(config, "envName", ".venv")),
     envDir |-> Abspath(a, dir),
     pythonVer |-> Or(a.python_ver, Get(config, "pythonVer", "sys.executable")),
     pkgManager |-> DetectPkgManager(config, tools),
     autoInstall |-> Get(config, "autoInstall", "true"),
     autoUpdate |-> Get(config, "autoUpdate", "true"),
     autoActivate |-> a.auto_activate]

\* core.py:95-105 save_config: the document written, always by yaml.dump.
SaveConfig(inst) ==
    [syntax |-> "yaml",
     data |-> [envName |-> inst.envName, envDir |-> inst.envDir,
               pythonVer |-> inst.pythonVer, autoInstall |-> inst.autoInstall,
               autoUpdate |-> inst.autoUpdate, pkgManager |-> inst.pkgManager]]

\* What shutil.which may find on the search path.
ToolSets == SUBSET {"poetry", "pipenv"}

\* The search paths of the bootstrap runs.
BootToolSets == {{"pipenv"}}

\* ------------------------------------------------------ initial states

\* Fragments a config file of the bootstrap runs may hold.
BootFragments ==
    {[EmptyFragment EXCEPT !["envName"] = "myenv", !["pkgManager"] = "pip",
                           !["envDir"] = <<"elsewhere">>]}

\* Files that may be at the config path when a bootstrap run starts.
BootFiles ==
    {NoFile} \cup {[syntax |-> "yaml", data |-> d] : d \in BootFragments}

\* init_env's arguments (core.py:337); env_dir is None, a relative or an absolute path.
ArgSets ==
    [env_name : {None}, env_dir : {None, "rel", "abs"}, python_ver : {None},
     config_file : {None, ".yaml", ".json"}, save_defaults : BOOLEAN,
     auto_activate : BOOLEAN]

\* The filesystem as one process sees it: the target directory (absent, empty or
\* non-empty), whether the environment root and the manifest exist, and the file
\* at the config path.  An absent or empty directory holds neither the environment
\* nor the manifest, nor the default config file.
FsViews(a) ==
    {f \in [dir : {"absent", "empty", "nonempty"}, envRoot : BOOLEAN, req : BOOLEAN,
            cfg : BootFiles] :
        /\ a.env_dir = None => f.dir # "absent"
        /\ f.dir # "nonempty" =>
              ~f.envRoot /\ ~f.req /\ (a.config_file = None => f.cfg = NoFile)}

Init ==
    /\ args \in ArgSets
    /\ env \in [marker : {"unset", "1", "0"}, pythonpath : {<<"user">>}]
    /\ fs \in FsViews(args)
    /\ cwd = <<"orig">>
    /\ exe = "unread"
    /\ gen = 0
    /\ pc = "entry"
    /\ configFile = NoConfigFile
    /\ self = NoInstance
    /\ answer = NoAnswer
    /\ effects = <<>>
    /\ out = {}
    /\ entry = [env |-> env, cwd |-> cwd, fs |-> fs]
    /\ hist = NoHist
    /\ pkgIdx = 1
    /\ exitCode = -1
    /\ retval = <<>>

\* ------------------------------------------------------ process endings

\* sys.exit(code).
Exit(code) == pc' = "exited" /\ exitCode' = code /\ UNCHANGED retval

\* An exception nobody catches: the interpreter prints a traceback and ends with
\* status 1.
Uncaught == pc' = "uncaught" /\ exitCode' = 1 /\ UNCHANGED retval

\* init_env returns value.
Return(value) == pc' = "returned" /\ retval' = value /\ UNCHANGED exitCode

\* The process goes on at position p.
Goto(p) == pc' = p /\ UNCHANGED <<exitCode, retval>>

\* ------------------------------------------------------ init_env

\* core.py:362-365: the short-circuit on the activation marker.
Enter ==
    /\ pc = "entry"
    /\ IF AlreadyActivated(env)
       THEN /\ out' = out \cup {<<"skipping", "">>}
            /\ Return(cwd)
       ELSE /\ Goto("dirprep")
            /\ UNCHANGED out
    /\ UNCHANGED <<args, env, fs, cwd, exe, gen, configFile, self, answer, effects,
                   entry, hist, pkgIdx>>

\* core.py:368-378 and 387-388: DirectoryPrep.
DirPrep ==
    /\ pc = "dirprep"
    /\ IF args.env_dir = None
       THEN /\ Goto("cfgcheck")
            /\ UNCHANGED <<fs, cwd, answer, effects, out>>
       ELSE IF fs.dir = "absent"
       THEN /\ fs' = [fs EXCEPT !.dir = "empty"]
            /\ cwd' = TargetDir(args, cwd)
            /\ effects' = effects \o <<(<<"makedirs", "">>), (<<"chdir", "">>)>>
            /\ Goto("cfgcheck")
            /\ UNCHANGED <<answer, out>>
       ELSE IF fs.dir = "nonempty"
       THEN \E a \in Answers :
            /\ answer' = a
            /\ IF IsAffirmative(a)
               THEN /\ cwd' = TargetDir(args, cwd)
                    /\ effects' = effects \o <<(<<"ask", "dir">>), (<<"chdir", "">>)>>
                    /\ Goto("cfgcheck")
                    /\ UNCHANGED out
               ELSE /\ effects' = Append(effects, <<"ask", "dir">>)
                    /\ out' = out \cup {<<"aborted", "dir">>}
                    /\ Exit(0)
                    /\ UNCHANGED cwd
            /\ UNCHANGED fs
       ELSE /\ cwd' = TargetDir(args, cwd)
            /\ effects' = Append(effects, <<"chdir", "">>)
            /\ Goto("cfgcheck")
            /\ UNCHANGED <<fs, answer, out>>
    /\ UNCHANGED <<args, env, exe, gen, configFile, self, entry, hist, pkgIdx>>

\* core.py:379-386 and 389-396: ConfigCheck.  The existence test and the prompt
\* are in the else branch only: a path that was not given is never tested.
ConfigCheck ==
    /\ pc = "cfgcheck"
    /\ IF args.config_file = None
       THEN /\ configFile' = [given |-> FALSE, ext |-> ".yaml"]
            /\ Goto("construct")
            /\ UNCHANGED <<answer, effects, out>>
       ELSE /\ configFile' = [given |-> TRUE, ext |-> args.config_file]
            /\ IF fs.cfg # NoFile
               THEN \E a \in Answers :
                    /\ answer' = a
                    /\ effects' = Append(effects, <<"ask", "cfg">>)
                    /\ IF IsAffirmative(a)
                       THEN Goto("construct") /\ UNCHANGED out
                       ELSE out' = out \cup {<<"aborted", "cfg">>} /\ Exit(0)
               ELSE /\ Goto("construct")
                    /\ UNCHANGED <<answer, effects, out>>
    /\ UNCHANGED <<args, env, fs, cwd, exe, gen, self, entry, hist, pkgIdx>>

\* ------------------------------------------------------ EZVenv

\* core.py:172.
CorePackages == <<"pip", "setuptools", "pyyaml">>

\* self.envPath (core.py:54).
EnvPath(inst) == Append(inst.envDir, inst.envName)

\* core.py:44-63 EZVenv.__init__: the instance is constructed; with
\* save_defaults the settings are written to the config path at once.  A failing
\* write is caught and reported (core.py:107-109).  init_env's local answer is
\* not read from here on.
Build(toolSets, next) ==
    /\ \E tools \in toolSets, saveOk \in BOOLEAN :
         LET inst == NewInstance(configFile, fs.cfg, args, cwd, tools) IN
         /\ self' = inst
         /\ IF args.save_defaults /\ saveOk
            THEN /\ fs' = [fs EXCEPT !.cfg = SaveConfig(inst),
                                     !.dir = IF configFile.given THEN @ ELSE "nonempty"]
                 /\ effects' = Append(effects, <<"save_config", "">>)
                 /\ hist' = [hist EXCEPT !.loads = Append(@, inst.config),
                                         !.overwritten = (fs.cfg # NoFile)]
                 /\ UNCHANGED out
            ELSE /\ out' = IF args.save_defaults
                           THEN out \cup {<<"fail_save", "">>} ELSE out
                 /\ hist' = [hist EXCEPT !.loads = Append(@, inst.config)]
                 /\ UNCHANGED <<fs, effects>>
    /\ answer' = NoAnswer
    /\ Goto(next)
    /\ UNCHANGED <<args, env, cwd, exe, gen, configFile, entry, pkgIdx>>

\* core.py:399-406: init_env constructs the instance and goes on to setup_env.
Construct ==
    /\ pc = "construct"
    /\ Build(BootToolSets, "create")

\* A mutant: the environment is created whether or not its root exists.
EnvRootExistsNever(f) == FALSE

\* core.py:151: os.path.exists(self.envPath).
EnvRootExists(f) == f.envRoot

\* A mutant: a failed creation is reported and the run goes on.
CreatePolicyLenient(r) ==
    CASE r = "ok" -> "continue"
      [] r = "nonzero" -> "continue"
      [] OTHER -> "raise"

\* core.py:155-162: what create_env does with the outcome of "python -m venv":
\* CalledProcessError is caught and ends the run with sys.exit(1); any other
\* exception is not caught.
CreatePolicy(r) ==
    CASE r = "ok" -> "continue"
      [] r = "nonzero" -> "exit1"
      [] OTHER -> "raise"

\* A mutant: the except clause is missing, so a failed step raises.
BestEffortPolicyStrict(r) ==
    CASE r = "ok" -> "continue"
      [] r = "nonzero" -> "raise"
      [] OTHER -> "raise"

\* core.py:176-180, 191-196, 224-229: what the best-effort steps do with the
\* outcome of a pip run: CalledProcessError is caught and reported and the run
\* goes on; any other exception is not caught.
BestEffortPolicy(r) ==
    CASE r = "ok" -> "continue"
      [] r = "nonzero" -> "report"
      [] OTHER -> "raise"

\* core.py:146-163 create_env, up to the call of update_core_components.
CreateEnv ==
    /\ pc = "create"
    /\ IF EnvRootExists(fs)
       THEN /\ hist' = [hist EXCEPT !.rootSeen = IF fs.envRoot THEN "present" ELSE "absent"]
            /\ out' = out \cup {<<"already_exists", "">>, <<"ready", "">>}
            /\ Goto("core")
            /\ UNCHANGED <<fs, effects>>
       ELSE \E r \in RunOutcomes, partial \in BOOLEAN :
            /\ hist' = [hist EXCEPT !.rootSeen = IF fs.envRoot THEN "present" ELSE "absent",
                                    !.venv = r, !.oserror = (r = "oserror")]
            /\ effects' = Append(effects, <<"run", "venv">>)
            /\ CASE CreatePolicy(r) = "continue" ->
                      /\ fs' = [fs EXCEPT !.envRoot = TRUE, !.dir = "nonempty"]
                      /\ out' = out \cup {<<"ready", "">>}
                      /\ Goto("core")
                 [] CreatePolicy(r) = "exit1" ->
                      /\ fs' = [fs EXCEPT !.envRoot = @ \/ partial,
                                          !.dir = IF partial THEN "nonempty" ELSE @]
                      /\ out' = out \cup {<<"fail_create", "">>}
                      /\ Exit(1)
                 [] OTHER ->
                      /\ Uncaught
                      /\ UNCHANGED <<fs, out>>
    /\ UNCHANGED <<args, env, cwd, exe, gen, configFile, self, answer, entry, pkgIdx>>

\* The common shape of a best-effort pip run: step names the run, failure the
\* message of the except branch, next the position after it.
PipRun(step, next) ==
    \E r \in RunOutcomes :
    /\ effects' = Append(effects, <<"run", step>>)
    /\ hist' = [hist EXCEPT !.oserror = (r = "oserror")]
    /\ CASE BestEffortPolicy(r) = "continue" -> Goto(next) /\ UNCHANGED out
         [] BestEffortPolicy(r) = "report" ->
              Goto(next) /\ out' = out \cup {<<"fail", step>>}
         [] OTHER -> Uncaught /\ UNCHANGED out

\* core.py:167-181 update_core_components: one iteration of the loop over
\* core_packages; after the last one control is back in setup_env.
UpdateCore ==
    /\ pc = "core"
    /\ pkgIdx <= Len(CorePackages)
    /\ PipRun(CorePackages[pkgIdx], IF pkgIdx = Len(CorePackages) THEN "install" ELSE "core")
    /\ pkgIdx' = pkgIdx + 1
    /\ UNCHANGED <<args, env, fs, cwd, exe, gen, configFile, self, answer, entry>>

\* core.py:183-198 install_deps.
InstallDeps ==
    /\ pc = "install"
    /\ IF fs.req
       THEN PipRun("install", "update")
       ELSE /\ out' = out \cup {<<"skip", "install">>}
            /\ Goto("update")
            /\ UNCHANGED <<effects, hist>>
    /\ UNCHANGED <<args, env, fs, cwd, exe, gen, configFile, self, answer, entry, pkgIdx>>

\* core.py:200-229 update_deps.
UpdateDeps ==
    /\ pc = "update"
    /\ IF fs.req
       THEN PipRun("update", "actdecide")
       ELSE /\ out' = out \cup {<<"skip", "update">>}
            /\ Goto("actdecide")
            /\ UNCHANGED <<effects, hist>>
    /\ UNCHANGED <<args, env, fs, cwd, exe, gen, configFile, self, answer, entry, pkgIdx>>

\* core.py:329-334 and 408: the activation decision of setup_env; without
\* auto-activation init_env returns the environment's path.
ActDecide ==
    /\ pc = "actdecide"
    /\ IF self.autoActivate
       THEN Goto("activate") /\ UNCHANGED out
       ELSE out' = out \cup {<<"auto_activation_disabled", "">>} /\ Return(EnvPath(self))
    /\ UNCHANGED <<args, env, fs, cwd, exe, gen, configFile, self, answer, effects,
                   entry, hist, pkgIdx>>

\* ------------------------------------------------------ activate_env

\* core.py:244-248, 281: what sys.executable may be when activate_env reads it.
\* A process runs the environment's own interpreter only if the environment was
\* there when the process started.
Executables(known, f) ==
    IF known # "unread" THEN {known}
    ELSE {"master", "other"} \cup (IF f.envRoot THEN {"env"} ELSE {})

\* core.py:242-258, 276-281, 309-311: the entry of activate_env.  In the master
\* environment the user is asked; every answer ends in an exit or in a
\* replacement, so the direct path below the prompt is taken only outside the
\* master environment.
Activate ==
    /\ pc = "activate"
    /\ exe' \in Executables(exe, entry.fs)
    /\ IF exe' = "master"
       THEN \E c \in Choices :
            /\ effects' = Append(effects, <<"ask", "choice">>)
            /\ hist' = [hist EXCEPT !.choice = c]
            /\ CASE c = "3" -> out' = out \cup {<<"no_changes", "">>} /\ Exit(0)
                 [] c = "1" -> Goto("mark_shell") /\ UNCHANGED out
                 [] c = "2" -> Goto("mark_layer") /\ UNCHANGED out
                 [] OTHER -> out' = out \cup {<<"invalid_choice", "">>} /\ Exit(0)
       ELSE IF exe' # "env"
       THEN /\ Goto("importcheck")
            /\ UNCHANGED <<effects, hist, out>>
       ELSE /\ out' = out \cup {<<"activated", "">>}
            /\ Return(EnvPath(self))
            /\ UNCHANGED <<effects, hist>>
    /\ UNCHANGED <<args, env, fs, cwd, gen, configFile, self, answer, entry, pkgIdx>>

\* core.py:283-302: the direct path checks that the environment's interpreter can
\* import ezvenv; if not, the master environment's site-packages goes in front of
\* PYTHONPATH, and if that directory is missing the run ends with sys.exit(1).
ImportCheck ==
    /\ pc = "importcheck"
    /\ \E r \in RunOutcomes, masterSite \in BOOLEAN :
         /\ hist' = [hist EXCEPT !.oserror = (r = "oserror")]
         /\ CASE r = "ok" ->
                   /\ effects' = Append(effects, <<"run", "import">>)
                   /\ Goto("mark_direct")
                   /\ UNCHANGED <<env, out>>
              [] r = "nonzero" /\ masterSite ->
                   /\ effects' = effects \o <<(<<"run", "import">>), (<<"setenv", "PYTHONPATH">>)>>
                   /\ env' = [env EXCEPT !.pythonpath = <<"master_site">> \o @]
                   /\ Goto("mark_direct")
                   /\ UNCHANGED out
              [] r = "nonzero" /\ ~masterSite ->
                   /\ effects' = Append(effects, <<"run", "import">>)
                   /\ out' = out \cup {<<"no_master_site", "">>}
                   /\ Exit(1)
                   /\ UNCHANGED env
              [] OTHER ->
                   /\ effects' = Append(effects, <<"run", "import">>)
                   /\ Uncaught
                   /\ UNCHANGED <<env, out>>
    /\ UNCHANGED <<args, fs, cwd, exe, gen, configFile, self, answer, entry, pkgIdx>>

\* A mutant: the marker is not set.
MarkActivatedNot(e) == e

\* core.py:264, 270, 303: os.environ["EZVENV_ALREADY_ACTIVATED"] = "1".
MarkActivated(e) == [e EXCEPT !.marker = "1"]

\* The position of the replacement call that follows each marker assignment.
ExecAfter(p) ==
    CASE p = "mark_shell" -> "exec_shell"
      [] p = "mark_layer" -> "exec_layer"
      [] OTHER -> "exec_direct"

\* core.py:264, 270, 303: the marker assignment in front of each replacement.
SetMarker ==
    /\ pc \in {"mark_shell", "mark_layer", "mark_direct"}
    /\ env' = MarkActivated(env)
    /\ effects' = Append(effects, <<"setenv", "EZVENV_ALREADY_ACTIVATED">>)
    /\ Goto(ExecAfter(pc))
    /\ UNCHANGED <<args, fs, cwd, exe, gen, configFile, self, answer, out, entry, hist,
                   pkgIdx>>

\* core.py:266: os.execv("/bin/bash", ...) of choice 1, outside any try: the
\* process becomes an interactive shell, or the call raises.
ExecShell ==
    /\ pc = "exec_shell"
    /\ effects' = Append(effects, <<"execv", "shell">>)
    /\ \E raises \in BOOLEAN :
         IF raises THEN Uncaught ELSE Goto("shell")
    /\ UNCHANGED <<args, env, fs, cwd, exe, gen, configFile, self, answer, out, entry,
                   hist, pkgIdx>>

\* sys.executable of the process started by os.execv(env_python, ...), relative
\* to the environment that process resolves from the same argv: a relative
\* env_dir resolves against the new working directory, hence to another
\* environment.
ExeAfterExec(a) == IF a.env_dir = "rel" THEN "other" ELSE "env"

\* core.py:271-275 and 304-308: os.execv(env_python, [env_python] + sys.argv)
\* inside try/except Exception.  On success the new process starts main() with
\* the same argv, the inherited environment and working directory; every local
\* is fresh.  With a relative env_dir the new process looks at another target
\* directory.
ExecPython ==
    /\ pc \in {"exec_layer", "exec_direct"}
    /\ \E raises \in BOOLEAN :
         IF raises
         THEN /\ effects' = Append(effects, <<"execv", "python">>)
              /\ out' = out \cup {<<"fail_activate", "">>}
              /\ Exit(1)
              /\ UNCHANGED <<fs, exe, gen, configFile, self, answer, entry, hist, pkgIdx>>
         ELSE /\ gen < MaxGen
              /\ gen' = gen + 1
              /\ exe' = ExeAfterExec(args)
              /\ \E f \in (IF args.env_dir = "rel" THEN FsViews(args) ELSE {fs}) :
                   /\ fs' = f
                   /\ entry' = [env |-> env, cwd |-> cwd, fs |-> f]
              /\ pc' = "entry"
              /\ configFile' = NoConfigFile
              /\ self' = NoInstance
              /\ answer' = NoAnswer
              /\ effects' = <<>>
              /\ out' = {}
              /\ hist' = NoHist
              /\ pkgIdx' = 1
              /\ exitCode' = -1
              /\ retval' = <<>>
    /\ UNCHANGED <<args, env, cwd>>

\* ------------------------------------------------------ specification

Next ==
    \/ Enter
    \/ DirPrep
    \/ ConfigCheck
    \/ Construct
    \/ CreateEnv
    \/ UpdateCore
    \/ InstallDeps
    \/ UpdateDeps
    \/ ActDecide
    \/ Activate
    \/ ImportCheck
    \/ SetMarker
    \/ ExecShell
    \/ ExecPython

Spec == Init /\ [][Next]_vars

\* The program is sequential: a process that can take a step takes it.
FairSpec == Spec /\ WF_vars(Next)

\* ------------------------------------------------------ config round trip

\* The settings fragments a config file may hold.
Fragments ==
    [envName : {Absent, ".venv", "myenv"},
     envDir : {<<>>, <<"orig">>, <<"elsewhere">>},
     pythonVer : {Absent, "sys.executable", "python3.9"},
     pkgManager : {Absent, "auto", "pip", "poetry"},
     autoInstall : {Absent, "true", "false"},
     autoUpdate : {Absent, "true", "false"}]

\* The syntax a file of the given suffix is written in when it is valid.
SyntaxOf(ext) == IF ext = ".json" THEN "json" ELSE "yaml"

\* A valid settings document is at a config path named *.yaml, *.yml or *.json,
\* and EZVenv(config_file=path, save_defaults=True) is about to be constructed
\* in directory orig.
InitRT ==
    /\ \E ext \in {".yaml", ".yml", ".json"}, d \in Fragments :
         /\ args = [env_name |-> None, env_dir |-> None, python_ver |-> None,
                    config_file |-> ext, save_defaults |-> TRUE, auto_activate |-> TRUE]
         /\ configFile = [given |-> TRUE, ext |-> ext]
         /\ fs = [dir |-> "nonempty", envRoot |-> FALSE, req |-> FALSE,
                  cfg |-> [syntax |-> SyntaxOf(ext), data |-> d]]
    /\ env = [marker |-> "unset", pythonpath |-> <<>>]
    /\ cwd = <<"orig">>
    /\ exe = "unread"
    /\ gen = 0
    /\ pc = "rt_new"
    /\ self = NoInstance
    /\ answer = NoAnswer
    /\ effects = <<>>
    /\ out = {}
    /\ entry = [env |-> env, cwd |-> cwd, fs |-> fs]
    /\ hist = NoHist
    /\ pkgIdx = 1
    /\ exitCode = -1
    /\ retval = <<>>

\* core.py:44-63: EZVenv(config_file=path, save_defaults=True): load_config,
\* the settings resolved, save_config.
RTConstruct ==
    /\ pc = "rt_new"
    /\ Build(ToolSets, "rt_built")

\* core.py:45, 65-89: the load_config of the next instance on the same path.
RTReload ==
    /\ pc = "rt_built"
    /\ hist' = [hist EXCEPT !.loads = Append(@, LoadConfig(self.configFile, fs.cfg))]
    /\ pc' = "rt_done"
    /\ UNCHANGED <<args, env, fs, cwd, exe, gen, configFile, self, answer, effects, out,
                   entry, pkgIdx, exitCode, retval>>

NextRT ==
    \/ RTConstruct
    \/ RTReload

SpecRT == InitRT /\ [][NextRT]_vars

\* ------------------------------------------------------ properties

\* The current process has performed side effect e.
Did(e) == \E i \in DOMAIN effects : effects[i] = e

\* The current process has performed a side effect of kind k.
DidKind(k) == \E i \in DOMAIN effects : effects[i][1] = k

\* The last side effect of the current process is e.
LastIs(e) == effects # <<>> /\ effects[Len(effects)] = e

\* The current process has left everything as it found it: no side effect, the
\* filesystem, the working directory and the environment as at entry, no
\* EZVenv instance.
Untouched ==
    /\ effects = <<>>
    /\ fs = entry.fs
    /\ cwd = entry.cwd
    /\ env = entry.env
    /\ self = NoInstance

\* C1 as stated: whenever the activation marker is present (set to any value) at
\* entry to init_env, init_env returns the working directory at once and has no
\* side effect.
C1_MarkerPresentSkips ==
    (entry.env.marker # "unset" /\ pc # "entry") =>
        (pc = "returned" /\ retval = entry.cwd /\ Untouched)

\* C1 amended: whenever the activation marker has the value "1" at entry to
\* init_env, init_env returns the working directory at once and has no side
\* effect, whatever the arguments.
C1_MarkerOneSkips ==
    (entry.env.marker = "1" /\ pc # "entry") =>
        (pc = "returned" /\ retval = entry.cwd /\ Untouched)

\* A run that would otherwise create the directory and write the config file
\* has returned on the marker.
C1_Witness ==
    /\ entry.env.marker = "1"
    /\ pc = "returned"
    /\ args.env_dir # None
    /\ fs.dir = "absent"
    /\ args.save_defaults

\* The directory prompt was the last prompt, and the answer typed is none of
\* "y", "yes" and "" in any letter case.
C2_DirDeclined ==
    /\ Did(<<"ask", "dir">>)
    /\ ~Did(<<"ask", "cfg">>)
    /\ answer \in Answers
    /\ Lower(answer) \notin {"y", "yes", ""}

\* C2: a negative answer to the non-empty-directory prompt ends the run with
\* exit code 0, and nothing but the prompt has happened: no directory created,
\* no chdir, no config written, no environment, no external process.
C2_DeclineIsClean ==
    C2_DirDeclined =>
        /\ pc = "exited"
        /\ exitCode = 0
        /\ effects = <<(<<"ask", "dir">>)>>
        /\ fs = entry.fs
        /\ cwd = entry.cwd
        /\ env = entry.env
        /\ self = NoInstance

\* The prompt was declined on a directory where the run would have gone on to
\* write the config file.
C2_Witness ==
    /\ C2_DirDeclined
    /\ pc = "exited"
    /\ fs.dir = "nonempty"
    /\ args.save_defaults

\* C3: when the environment root is absent and the venv run fails (a non-zero
\* exit, or the interpreter cannot be launched), the run ends with status 1 and
\* the venv run is the last thing it did: no core upgrade, no dependency
\* install or update, no activation.
C3_CreateFailureAborts ==
    hist.venv \in {"nonzero", "oserror"} =>
        /\ hist.rootSeen = "absent"
        /\ pc = (IF hist.venv = "nonzero" THEN "exited" ELSE "uncaught")
        /\ exitCode = 1
        /\ LastIs(<<"run", "venv">>)
        /\ \A p \in {"pip", "setuptools", "pyyaml", "install", "update", "import"} :
              ~Did(<<"run", p>>)
        /\ ~DidKind("execv")
        /\ ~DidKind("setenv")
        /\ env.marker = entry.env.marker

\* The venv run exited non-zero in a run that had a manifest to install and
\* auto-activation on.
C3_Witness ==
    /\ hist.venv = "nonzero"
    /\ pc = "exited"
    /\ fs.req
    /\ args.auto_activate

\* The best-effort pip runs.
BestEffortRuns ==
    {<<"run", "pip">>, <<"run", "setuptools">>, <<"run", "pyyaml">>,
     <<"run", "install">>, <<"run", "update">>}

\* The current process is at or past the activation decision of setup_env.
DecisionReached ==
    \/ pc \in {"actdecide", "activate", "importcheck", "mark_shell", "mark_layer",
               "mark_direct", "exec_shell", "exec_layer", "exec_direct", "shell"}
    \/ <<"auto_activation_disabled", "">> \in out
    \/ <<"activated", "">> \in out
    \/ Did(<<"ask", "choice">>)
    \/ Did(<<"run", "import">>)

\* C4: non-zero exits of the best-effort steps never end the run.  A process
\* ends right after a best-effort pip run only when pip could not be launched;
\* past the core update all three core packages have been attempted; at the
\* activation decision install_deps and update_deps have both run; and a
\* process that started the core update and was not stopped by a launch failure
\* ends only at or past the activation decision.
C4_BestEffortNeverAborts ==
    /\ (pc \in {"exited", "uncaught"} /\ effects # <<>>
            /\ effects[Len(effects)] \in BestEffortRuns)
          => (pc = "uncaught" /\ hist.oserror)
    /\ (pc \in {"install", "update"} \/ DecisionReached)
          => \A i \in DOMAIN CorePackages : Did(<<"run", CorePackages[i]>>)
    /\ DecisionReached
          => /\ Did(<<"run", "install">>) \/ <<"skip", "install">> \in out
             /\ Did(<<"run", "update">>) \/ <<"skip", "update">> \in out
    /\ (pc \in Terminal /\ Did(<<"run", "pip">>) /\ ~hist.oserror)
          => DecisionReached

\* All five best-effort steps exited non-zero and the run reached the
\* "auto-activation disabled" decision.
C4_Witness ==
    /\ \A r \in BestEffortRuns : <<"fail", r[2]>> \in out
    /\ pc = "returned"
    /\ <<"auto_activation_disabled", "">> \in out

\* C5: the activation marker prevents re-exec loops.  Along every chain of
\* processes at most one replacement by the environment's interpreter happens,
\* the marker once "1" stays "1", and the chain ends: the last process returns,
\* exits, dies of an exception or becomes the interactive shell.
C5_NoReexecLoop ==
    /\ [](gen <= 1)
    /\ [][env.marker = "1" => env'.marker = "1"]_vars
    /\ <>[](pc \in Terminal)

\* The process started by the replacement has returned on the marker, in the
\* case where it resolves another environment than the one it runs in (a
\* relative target directory), so that nothing but the marker stops it.
C5_Witness ==
    /\ gen = 1
    /\ pc = "returned"
    /\ exe = "other"
    /\ args.auto_activate
    /\ entry.env.marker = "1"

\* C6 as stated: save_config never replaces an existing config file unless the
\* overwrite prompt was shown before (and answered in the affirmative), whether
\* the path was given or defaulted.
C6_NoSilentOverwrite ==
    hist.overwritten => Did(<<"ask", "cfg">>)

\* C7 as stated: whenever a process-image replacement call raises, the process
\* reports the failure and exits with code 1; the exception is never left
\* uncaught.
C7_ExecFailureCaught ==
    (pc \in {"exited", "uncaught"} /\ effects # <<>>
        /\ effects[Len(effects)][1] = "execv")
      => /\ pc = "exited"
         /\ exitCode = 1
         /\ <<"fail_activate", "">> \in out

\* C9: the venv run happens only when create_env found the environment root
\* absent; when it found the root present it runs nothing, reports "already
\* exists" and goes on to the core update.
C9_ExistingRootNotRecreated ==
    /\ Did(<<"run", "venv">>) => hist.rootSeen = "absent"
    /\ hist.rootSeen = "present" =>
          /\ ~Did(<<"run", "venv">>)
          /\ hist.venv = None
          /\ <<"already_exists", "">> \in out
          /\ <<"fail_create", "">> \notin out
          /\ (pc = "core" /\ pkgIdx = 1) \/ Did(<<"run", "pip">>)

\* create_env found the root present and the core update has started.
C9_Witness ==
    /\ hist.rootSeen = "present"
    /\ entry.fs.envRoot
    /\ Did(<<"run", "pip">>)

\* The marker assignment.
SetMarkerEffect == <<"setenv", "EZVENV_ALREADY_ACTIVATED">>

\* C10: the marker is "1" whenever a replacement call is made, the assignment
\* coming right before the call; a process started by a replacement finds the
\* marker "1"; and a process that ends without a replacement call (choice 3, an
\* invalid choice, already on the environment's interpreter, auto-activation
\* off, or any earlier ending) leaves the marker as it found it.
C10_MarkerBeforeReplacement ==
    /\ pc \in {"exec_shell", "exec_layer", "exec_direct"}
          => (env.marker = "1" /\ LastIs(SetMarkerEffect))
    /\ \A i \in DOMAIN effects :
          effects[i][1] = "execv" => (i > 1 /\ effects[i - 1] = SetMarkerEffect)
    /\ (pc = "shell" \/ DidKind("execv")) => env.marker = "1"
    /\ gen > 0 => entry.env.marker = "1"
    /\ (pc \in {"returned", "exited", "uncaught"} /\ ~DidKind("execv"))
          => (env.marker = entry.env.marker /\ ~Did(SetMarkerEffect))
    /\ (hist.choice \in {"3", "x"} \/ <<"activated", "">> \in out
            \/ <<"auto_activation_disabled", "">> \in out)
          => (env.marker = entry.env.marker /\ ~Did(SetMarkerEffect)
                /\ ~DidKind("execv"))

\* The replacement by the shell is about to be called, in a run that started
\* with the marker unset.
C10_Witness ==
    /\ pc = "exec_shell"
    /\ entry.env.marker = "unset"
    /\ env.marker = "1"

\* C8 as stated: load_config, save_config, load_config on a valid settings
\* document named *.yaml, *.yml or *.json gives back, for every persisted field
\* the document sets, the value the first load gave.
C8_RoundTrip ==
    pc = "rt_done" =>
        \A k \in Keys :
            hist.loads[1][k] # AbsentOf(k) => hist.loads[2][k] = hist.loads[1][k]

\* C11 as stated: on the choice-2 path and on the direct path alike, the
\* replacement by the environment's interpreter is called only after the import
\* check has run in this process, and PYTHONPATH starts with the master
\* environment's site-packages exactly when that check failed.
C11_ImportCheckedBeforeReplacement ==
    /\ pc \in {"mark_layer", "exec_layer", "mark_direct", "exec_direct"}
          => /\ Did(<<"run", "import">>)
             /\ env.pythonpath =
                   (IF Did(<<"setenv", "PYTHONPATH">>)
                    THEN <<"master_site">> \o entry.env.pythonpath
                    ELSE entry.env.pythonpath)
    /\ \A i \in DOMAIN effects :
          effects[i] = <<"execv", "python">>
             => \E j \in 1..(i - 1) : effects[j] = <<"run", "import">>

====
